---- MODULE Spec2Model ----
(***************************************************************************)
(* Model of src/main.py: the QudobeautyScraper pipeline                    *)
(*   navigate_to_skincare -> extract_product_links -> scrape_product_page  *)
(*   (per link) -> driver.quit -> export_to_excel.                         *)
(*                                                                         *)
(* The browser (selenium) is the environment: every driver call is a       *)
(* nondeterministic choice among the outcomes the call can have (a value,  *)
(* NoSuchElementException / TimeoutException, or another exception).       *)
(* Python strings are sequences of one-character strings, so that          *)
(* startswith, strip, lower, `in` and + are computed, not assumed.         *)
(***************************************************************************)
EXTENDS Integers, Sequences, FiniteSets, TLC

VARIABLES
    pc,             \* control location of the running method
    stack,          \* callers of the running method (innermost first)
    driver,         \* "active" | "quit": state of self.driver
    quits,          \* number of driver.quit() calls issued
    lateOps,        \* number of driver operations issued after driver.quit()
    nav,            \* locals and result of navigate_to_skincare
    wait,           \* outcome of the latest _wait_for_page_load call
    lk,             \* locals and result of extract_product_links
    run,            \* locals of scrape_products (product_links, loop position)
    products,       \* self.products
    scrape,         \* latest scrape_product_page call: page served and record returned
    exported        \* rows handed to the Excel writer by export_to_excel ("none" before)

vars == <<pc, stack, driver, quits, lateOps, nav, wait, lk, run, products, scrape, exported>>

-----------------------------------------------------------------------------
(* Python values: None and str *)

None == [t |-> "None", s |-> <<>>]

Str(s) == [t |-> "str", s |-> s]

\* Python truthiness of None / str (used by `if x`, `x and y`, `x or y`, `not x`).
Truthy(v) == v.t = "str" /\ v.s # <<>>

\* str.startswith(prefix)
StartsWith(s, p) == Len(s) >= Len(p) /\ SubSeq(s, 1, Len(p)) = p

\* `sub in s` for strings
Contains(s, sub) ==
    \E i \in 1..(Len(s) - Len(sub) + 1) : SubSeq(s, i, i + Len(sub) - 1) = sub

UpperToLower ==
    [c \in {"S", "K", "I", "N", "C", "A", "R", "E", "P"} |->
        CASE c = "S" -> "s" [] c = "K" -> "k" [] c = "I" -> "i" [] c = "N" -> "n"
          [] c = "C" -> "c" [] c = "A" -> "a" [] c = "R" -> "r" [] c = "E" -> "e"
          [] c = "P" -> "p"]

\* str.lower() over the alphabet the model's hrefs use
Lower(s) == [i \in 1..Len(s) |-> IF s[i] \in DOMAIN UpperToLower THEN UpperToLower[s[i]] ELSE s[i]]

IsSpace(c) == c \in {" ", "\t", "\n"}

RECURSIVE LStrip(_)
LStrip(s) == IF s # <<>> /\ IsSpace(Head(s)) THEN LStrip(Tail(s)) ELSE s

RECURSIVE RStrip(_)
RStrip(s) == IF s # <<>> /\ IsSpace(s[Len(s)]) THEN RStrip(SubSeq(s, 1, Len(s) - 1)) ELSE s

\* str.strip()
Strip(s) == RStrip(LStrip(s))

-----------------------------------------------------------------------------
(* The driver's answers *)

\* find_element raised NoSuchElementException
NoSuch == [k |-> "NoSuchElementException", v |-> None]

\* the driver call raised another exception (WebDriverException: crash, stale element, ...)
Crash == [k |-> "WebDriverException", v |-> None]

\* find_element returned an element; v is the element's text, or the attribute read from it
Elem(v) == [k |-> "element", v |-> v]

\* what a call returns to its caller: a value, or an exception in flight
Return(v) == [raised |-> FALSE, value |-> v]

Raise == [raised |-> TRUE, value |-> None]

\* self.base_url
base_url ==
    <<"h", "t", "t", "p", "s", ":", "/", "/", "q", "u", "d", "o", "b", "e", "a", "u", "t", "y",
      ".", "c", "o", "m">>

\* polls of document.readyState the driver answers before WebDriverWait's bound
\* (timeout=15) runs out
MaxPolls == 2

\* time.sleep(2) after the document is ready
DynamicContentDelay == 2

\* what one poll `d.execute_script('return document.readyState')` gives; "error": the
\* call raises (WebDriverException)
PollResults == {"loading", "interactive", "complete", "error"}

\* what the driver does during one _wait_for_page_load: its answer to each poll
WaitOutcomes == [1..MaxPolls -> PollResults]

ReadyAtOnce == [n \in 1..MaxPolls |-> "complete"]

NeverReady == [n \in 1..MaxPolls |-> "loading"]

ScriptError == [n \in 1..MaxPolls |-> "error"]

\* WebDriverWait(...).until(lambda d: ... == 'complete'): the first poll that is
\* 'complete' ends it, a poll that raises ends it with that exception, and it raises
\* TimeoutException when the bound runs out first
RECURSIVE Until(_)
Until(polls) ==
    IF polls = <<>> THEN "TimeoutException"
    ELSE IF Head(polls) = "complete" THEN "complete"
    ELSE IF Head(polls) = "error" THEN "WebDriverException"
    ELSE Until(Tail(polls))

\* WaitForPageLoad with the TimeoutException handler logging nothing
WaitForPageLoadSilent(d) ==
    LET u == Until(d) IN
    [d |-> d, raised |-> u = "WebDriverException", warned |-> FALSE,
     slept |-> IF u = "complete" THEN DynamicContentDelay ELSE 0]

\* _wait_for_page_load: only TimeoutException is caught (and logged as a warning)
WaitForPageLoad(d) ==
    LET u == Until(d) IN
    IF u = "TimeoutException"
    THEN [d |-> d, raised |-> FALSE, warned |-> TRUE, slept |-> 0]
    ELSE IF u = "WebDriverException"
    THEN [d |-> d, raised |-> TRUE, warned |-> FALSE, slept |-> 0]
    ELSE [d |-> d, raised |-> FALSE, warned |-> FALSE, slept |-> DynamicContentDelay]

\* _safe_find_element: the stripped text of the element, None for a missing element or
\* a falsy text; only NoSuchElementException is caught.
SafeFindElement(found) ==
    IF found.k = "NoSuchElementException" THEN Return(None)
    ELSE IF found.k = "WebDriverException" THEN Raise
    ELSE IF Truthy(found.v) THEN Return(Str(Strip(found.v.s)))
    ELSE Return(None)

\* _safe_get_attribute: the attribute as the driver gives it, None for a missing element
SafeGetAttribute(found) ==
    IF found.k = "NoSuchElementException" THEN Return(None)
    ELSE IF found.k = "WebDriverException" THEN Raise
    ELSE Return(found.v)

\* ProbeText without the `break`: the last candidate's result stands
RECURSIVE ProbeTextNoBreak(_)
ProbeTextNoBreak(founds) ==
    LET r == SafeFindElement(Head(founds)) IN
    IF r.raised THEN r
    ELSE IF Len(founds) = 1 THEN r
    ELSE ProbeTextNoBreak(Tail(founds))

\* the "for by, selector in ..._selectors" loops of the four text fields: the field is
\* assigned each candidate's result in turn and the loop breaks at the first truthy one
\* (so after an exhausted loop the field holds the LAST candidate's result).
RECURSIVE ProbeText(_)
ProbeText(founds) ==
    LET r == SafeFindElement(Head(founds)) IN
    IF r.raised THEN r
    ELSE IF Truthy(r.value) \/ Len(founds) = 1 THEN r
    ELSE ProbeText(Tail(founds))

\* "Ensure full URL"
EnsureFullUrl(url) ==
    IF StartsWith(url.s, <<"/", "/">>) THEN Str(<<"h", "t", "t", "p", "s", ":">> \o url.s)
    ELSE IF StartsWith(url.s, <<"/">>) THEN Str(base_url \o url.s)
    ELSE url

\* the image_selectors loop
RECURSIVE ProbeImage(_)
ProbeImage(founds) ==
    LET r == SafeGetAttribute(Head(founds)) IN
    IF r.raised THEN r
    ELSE IF Truthy(r.value) THEN Return(EnsureFullUrl(r.value))
    ELSE IF Len(founds) = 1 THEN r
    ELSE ProbeImage(Tail(founds))

\* "Extract additional info from meta tags if needed"
MetaFallback(current, found) ==
    IF Truthy(current) THEN Return(current) ELSE SafeGetAttribute(found)

Brand == Str(<<"Q", "u", "d", "o", " ", "B", "e", "a", "u", "t", "y">>)

\* driver.get(url): a null url is rejected by the driver, any other may fail to load
DriverGet(url, page) == IF url = None THEN "error" ELSE page.get

\* scrape_product_page(url) on a site that serves `page` for url: the record, or None
\* when anything inside the try raised (except Exception: return None).
ScrapeProductPage(url, page) ==
    LET w     == WaitForPageLoad(page.wait)
        name  == ProbeText(page.name)
        cat   == ProbeText(page.category)
        ingr  == ProbeText(page.ingredients)
        size  == ProbeText(page.size)
        img   == ProbeImage(page.image)
        name2 == MetaFallback(name.value, page.og_title)
        img2  == MetaFallback(img.value, page.og_image)
    IN  IF DriverGet(url, page) = "error" \/ w.raised THEN None
        ELSE IF name.raised \/ cat.raised \/ ingr.raised \/ size.raised \/ img.raised THEN None
        ELSE IF name2.raised \/ img2.raised THEN None
        ELSE [t |-> "dict", s |-> <<>>,
              product_name |-> name2.value, brand |-> Brand, category |-> cat.value,
              ingredients |-> ingr.value, size |-> size.value, image_url |-> img2.value,
              product_url |-> url]

-----------------------------------------------------------------------------
(* Calls, returns and exceptions.  `stack` is <<>> when the running method was  *)
(* called directly and <<"scrape_products">> when scrape_products called it.  *)

\* where control goes when an exception leaves the running method: scrape_products'
\* `except Exception`, or out of the call
Propagate == IF stack = <<>> THEN "raised" ELSE "sp_except"

\* every driver call after driver.quit() is counted
DriverOp == lateOps' = IF driver = "quit" THEN lateOps + 1 ELSE lateOps

NoWait == [d |-> <<>>, raised |-> FALSE, warned |-> FALSE, slept |-> 0]

-----------------------------------------------------------------------------
(* navigate_to_skincare *)

\* len(skincare_selectors)
NumSkincareSelectors == 4

NavInit ==
    [cand |-> 1,            \* position in skincare_selectors
     tried |-> <<>>,        \* candidates waited for, in order
     seen |-> <<>>,         \* what each of them did: "clickable" | "timeout" | "error"
     clicks |-> 0,          \* skincare_link.click() calls
     clicked |-> 0,         \* the candidate clicked
     click_raised |-> FALSE, \* click() raised
     result |-> "none"]     \* "True" | "False" | "raised" once the method is left

\* what follows navigate_to_skincare in its caller (the return value is not used)
AfterNavigate == IF stack = <<>> THEN "done" ELSE "lk_height"

\* line 87: self.driver.get(self.base_url), outside the try
NavGet ==
    /\ pc = "nav_get"
    /\ DriverOp
    /\ \E ok \in BOOLEAN :
          IF ok THEN pc' = "nav_wait0" /\ nav' = nav
          ELSE pc' = "nav_return" /\ nav' = [nav EXCEPT !.result = "raised"]
    /\ UNCHANGED <<stack, driver, quits, wait, lk, run, products, scrape, exported>>

\* line 88: self._wait_for_page_load(), outside the try
NavWaitHome ==
    /\ pc = "nav_wait0"
    /\ DriverOp
    /\ \E d \in WaitOutcomes :
          /\ wait' = WaitForPageLoad(d)
          /\ IF wait'.raised
             THEN pc' = "nav_return" /\ nav' = [nav EXCEPT !.result = "raised"]
             ELSE pc' = "nav_cand" /\ nav' = nav
    /\ UNCHANGED <<stack, driver, quits, lk, run, products, scrape, exported>>

\* lines 99-109 and 112-117: WebDriverWait(self.driver, 5).until(element_to_be_clickable)
\* for the current candidate. TimeoutException: continue (return False after the last
\* one); any other exception: the outer except returns False.
NavTryCandidate ==
    /\ pc = "nav_cand"
    /\ DriverOp
    /\ \E o \in {"clickable", "timeout", "error"} :
          LET n == [nav EXCEPT !.tried = Append(@, nav.cand), !.seen = Append(@, o)] IN
          CASE o = "clickable" -> pc' = "nav_click" /\ nav' = n
            [] o = "timeout" ->
                  IF nav.cand < NumSkincareSelectors
                  THEN pc' = "nav_cand" /\ nav' = [n EXCEPT !.cand = @ + 1]
                  ELSE pc' = "nav_return" /\ nav' = [n EXCEPT !.result = "False"]
            [] o = "error" -> pc' = "nav_return" /\ nav' = [n EXCEPT !.result = "False"]
    /\ UNCHANGED <<stack, driver, quits, wait, lk, run, products, scrape, exported>>

\* line 105: skincare_link.click(); an exception reaches the outer except: return False
NavClick ==
    /\ pc = "nav_click"
    /\ DriverOp
    /\ \E ok \in BOOLEAN :
          LET n == [nav EXCEPT !.clicks = @ + 1, !.clicked = nav.cand] IN
          IF ok THEN pc' = "nav_wait1" /\ nav' = n
          ELSE pc' = "nav_return"
               /\ nav' = [n EXCEPT !.click_raised = TRUE, !.result = "False"]
    /\ UNCHANGED <<stack, driver, quits, wait, lk, run, products, scrape, exported>>

\* NavWaitCategory without the `return True`: the loop goes on to the next candidate
NavWaitCategoryNoReturn ==
    /\ pc = "nav_wait1"
    /\ DriverOp
    /\ \E d \in WaitOutcomes :
          /\ wait' = WaitForPageLoad(d)
          /\ IF wait'.raised \/ nav.cand = NumSkincareSelectors
             THEN pc' = "nav_return" /\ nav' = [nav EXCEPT !.result = "False"]
             ELSE pc' = "nav_cand" /\ nav' = [nav EXCEPT !.cand = @ + 1]
    /\ UNCHANGED <<stack, driver, quits, lk, run, products, scrape, exported>>

\* lines 106-107: self._wait_for_page_load(); return True. An exception of the wait
\* reaches the outer except: return False
NavWaitCategory ==
    /\ pc = "nav_wait1"
    /\ DriverOp
    /\ \E d \in WaitOutcomes :
          /\ wait' = WaitForPageLoad(d)
          /\ nav' = [nav EXCEPT !.result = IF wait'.raised THEN "False" ELSE "True"]
    /\ pc' = "nav_return"
    /\ UNCHANGED <<stack, driver, quits, lk, run, products, scrape, exported>>

\* the method is left, by return or by the exception of lines 87-88: its locals are gone
NavReturn ==
    /\ pc = "nav_return"
    /\ pc' = IF nav.result = "raised" THEN Propagate ELSE AfterNavigate
    /\ nav' = [NavInit EXCEPT !.result = nav.result]
    /\ wait' = NoWait
    /\ UNCHANGED <<stack, driver, quits, lateOps, lk, run, products, scrape, exported>>

-----------------------------------------------------------------------------
(* extract_product_links *)

\* max_scrolls
max_scrolls == 5

\* len(link_selectors)
NumLinkSelectors == 4

\* largest number of elements one find_elements call returns in the model
MaxElems == 2

\* largest max_products argument tried (main passes 30, which pages of so few anchors
\* never reach: the cap is reached for the arguments up to this one)
MaxProducts == 3

hrefSkincare ==
    Str(<<"/", "p", "r", "o", "d", "u", "c", "t", "s", "/", "S", "k", "i", "n", "C", "a", "r", "e">>)

hrefLipstick == Str(<<"/", "p", "r", "o", "d", "u", "c", "t", "s", "/", "l", "i", "p">>)

hrefCollection == Str(<<"/", "s", "k", "i", "n", "c", "a", "r", "e">>)

\* what elem.get_attribute('href') gives for the anchors of the model's pages
Hrefs == {hrefSkincare, hrefLipstick, hrefCollection, None}

\* an anchor: its href, or an element whose get_attribute raises (stale element)
Anchors == {Elem(h) : h \in Hrefs} \cup {Crash}

SeqsUpTo(n, S) == UNION {[1..k -> S] : k \in 0..n}

LkInit(max) ==
    [max_products |-> max,
     scroll_attempts |-> 0,
     sel |-> 1,                 \* position in link_selectors
     elements |-> <<>>,         \* the current selector's elements still to scan
     product_links |-> {},
     repeated |-> FALSE,        \* an href already in product_links was added again
     result |-> <<>>,           \* the list returned
     returned |-> FALSE]

\* KeepHref with the cap as a further condition: (... and ...) and len(product_links) < max_products
KeepHrefAnd(href, product_links, max) ==
    /\ Truthy(href)
    /\ Contains(href.s, <<"/", "p", "r", "o", "d", "u", "c", "t", "s", "/">>)
    /\ Contains(Lower(href.s), <<"s", "k", "i", "n", "c", "a", "r", "e">>)
    /\ Cardinality(product_links) < max

\* href and '/products/' in href and 'skincare' in href.lower() or len(product_links) < max_products
\* (Python: `and` binds tighter than `or`; both short-circuit on truthiness)
KeepHref(href, product_links, max) ==
    \/ /\ Truthy(href)
       /\ Contains(href.s, <<"/", "p", "r", "o", "d", "u", "c", "t", "s", "/">>)
       /\ Contains(Lower(href.s), <<"s", "k", "i", "n", "c", "a", "r", "e">>)
    \/ Cardinality(product_links) < max

\* what follows extract_product_links in its caller
AfterLinks == IF stack = <<>> THEN "done" ELSE "sp_links"

\* line 124: last_height = execute_script(...), outside any try
LinksHeight ==
    /\ pc = "lk_height"
    /\ DriverOp
    /\ \E ok \in BOOLEAN :
          IF ok THEN pc' = "lk_scroll" ELSE pc' = Propagate
    /\ UNCHANGED <<stack, driver, quits, nav, wait, lk, run, products, scrape, exported>>

\* lines 128-137: one pass of the scroll loop; the loop is left when the height did not
\* change or after max_scrolls passes
LinksScroll ==
    /\ pc = "lk_scroll"
    /\ IF lk.scroll_attempts < max_scrolls
       THEN /\ DriverOp
            /\ \E o \in {"same", "grew", "error"} :
                  CASE o = "same" -> pc' = "lk_find" /\ lk' = lk
                    [] o = "grew" ->
                          pc' = "lk_scroll" /\ lk' = [lk EXCEPT !.scroll_attempts = @ + 1]
                    [] o = "error" -> pc' = Propagate /\ lk' = LkInit(lk.max_products)
       ELSE pc' = "lk_find" /\ lk' = lk /\ lateOps' = lateOps
    /\ UNCHANGED <<stack, driver, quits, nav, wait, run, products, scrape, exported>>

\* product_links.add(href)
Add(l, href) ==
    [l EXCEPT !.product_links = @ \cup {href}, !.repeated = @ \/ href \in l.product_links]

\* lines 161-162 and the end of the selector loop, with `l` the locals so far
AfterSelector(l) ==
    IF Cardinality(l.product_links) >= l.max_products \/ l.sel = NumLinkSelectors
    THEN pc' = "lk_return" /\ lk' = l
    ELSE pc' = "lk_find" /\ lk' = [l EXCEPT !.sel = @ + 1, !.elements = <<>>]

\* lines 157-159: `except Exception: continue` skips the check of lines 161-162
AfterSelectorError ==
    IF lk.sel = NumLinkSelectors
    THEN pc' = "lk_return" /\ lk' = lk
    ELSE pc' = "lk_find" /\ lk' = [lk EXCEPT !.sel = @ + 1, !.elements = <<>>]

\* line 150: elements = self.driver.find_elements(By.XPATH, selector)
LinksFind ==
    /\ pc = "lk_find"
    /\ DriverOp
    /\ \/ \E es \in SeqsUpTo(MaxElems, Anchors) :
             IF es = <<>>
             THEN AfterSelector(lk)
             ELSE pc' = "lk_elem" /\ lk' = [lk EXCEPT !.elements = es]
       \/ AfterSelectorError
    /\ UNCHANGED <<stack, driver, quits, nav, wait, run, products, scrape, exported>>

\* lines 151-156: the next element of the current selector
LinksElem ==
    /\ pc = "lk_elem"
    /\ DriverOp
    /\ LET e == Head(lk.elements)
           last == Len(lk.elements) = 1
       IN
       IF e.k # "element" THEN AfterSelectorError
       ELSE IF KeepHref(e.v, lk.product_links, lk.max_products)
       THEN LET l == Add(lk, e.v) IN
            IF Cardinality(l.product_links) >= lk.max_products \/ last
            THEN AfterSelector(l)
            ELSE pc' = "lk_elem" /\ lk' = [l EXCEPT !.elements = Tail(@)]
       ELSE IF last
            THEN AfterSelector(lk)
            ELSE pc' = "lk_elem" /\ lk' = [lk EXCEPT !.elements = Tail(@)]
    /\ UNCHANGED <<stack, driver, quits, nav, wait, run, products, scrape, exported>>

\* the lists list(s) can be: every order of the set's members
Orders(S) == {q \in [1..Cardinality(S) -> S] : \A x \in S : \E i \in DOMAIN q : q[i] = x}

\* Slice without the cut: the whole list
SliceNone(q, n) == q

\* list[:n] for n >= 0
Slice(q, n) == SubSeq(q, 1, IF n < Len(q) THEN n ELSE Len(q))

\* line 165: return list(product_links)[:max_products]; the other locals are gone
LinksReturn ==
    /\ pc = "lk_return"
    /\ \E q \in Orders(lk.product_links) :
          lk' = [LkInit(lk.max_products) EXCEPT !.product_links = lk.product_links,
                                                !.repeated = lk.repeated,
                                                !.result = Slice(q, lk.max_products),
                                                !.returned = TRUE]
    /\ pc' = AfterLinks
    /\ UNCHANGED <<stack, driver, quits, lateOps, nav, wait, run, products, scrape, exported>>

-----------------------------------------------------------------------------
(* Detail pages the site may serve *)

Digit == <<"1", "2", "3", "4">>

\* what the n-th locator of the field tagged `tag` finds, by kind: no element, an
\* element without text, one with blank text, one with a text (padded, as rendered),
\* or a failing driver call
FoundText(tag, n, kind) ==
    CASE kind = "none" -> NoSuch
      [] kind = "notext" -> Elem(Str(<<>>))
      [] kind = "blank" -> Elem(Str(<<" ">>))
      [] kind = "text" -> Elem(Str(<<" ", tag, Digit[n], " ">>))
      [] kind = "crash" -> Crash

TextFounds(tag, shape) == [n \in 1..4 |-> FoundText(tag, n, shape[n])]

TextShapes ==
    {<<f>> \o r : f \in {"none", "notext", "blank", "text"},
                  r \in {<<"none", "none", "none">>, <<"text", "text", "text">>,
                         <<"none", "blank", "text">>, <<"blank", "none", "blank">>}}

\* the shapes category, ingredients and size take
OtherShapes ==
    {<<f>> \o r : f \in {"none", "notext", "blank", "text"},
                  r \in {<<"text", "text", "text">>, <<"blank", "none", "blank">>}}

SchemeRelative == <<"/", "/">>

RootRelative == <<"/">>

Absolute == <<"h", "t", "t", "p", "s", ":", "/", "/">>

\* an element whose src (or content) attribute is a URL of the given form
Url(form, n) == Elem(Str(form \o <<"c", "d", "n", "/", n>>))

\* what the four image locators find: the src attribute of the element
ImageFounds ==
    {<<f>> \o r :
        f \in {NoSuch, Elem(None), Elem(Str(<<>>)), Url(SchemeRelative, "1"),
               Url(RootRelative, "1"), Url(Absolute, "1")},
        r \in {<<NoSuch, NoSuch, NoSuch>>,
               <<Url(RootRelative, "2"), Url(Absolute, "3"), Url(Absolute, "4")>>,
               <<Elem(None), Url(SchemeRelative, "3"), Url(RootRelative, "4")>>,
               <<Elem(Str(<<>>)), NoSuch, Url(Absolute, "4")>>}}

\* the content attribute of meta[property='og:title']
OgTitles == {NoSuch, Elem(None), Elem(Str(<<>>)), Elem(Str(<<"M", "e", "t", "a">>))}

\* the content attribute of meta[property='og:image']
OgImages ==
    {NoSuch, Elem(None), Url(SchemeRelative, "m"), Url(RootRelative, "m"), Url(Absolute, "m")}

\* a page: how driver.get and the page-load wait end, and what each locator finds;
\* category, ingredients and size share a shape (each with its own texts)
Page(get, w, nameShape, otherShape, image, ogt, ogi) ==
    [get |-> get, wait |-> w,
     name |-> TextFounds("n", nameShape),
     category |-> TextFounds("c", otherShape),
     ingredients |-> TextFounds("i", otherShape),
     size |-> TextFounds("s", otherShape),
     image |-> image, og_title |-> ogt, og_image |-> ogi]

AllText == <<"text", "text", "text", "text">>

AllNone == <<"none", "none", "none", "none">>

FullPage ==
    Page("ok", ReadyAtOnce, AllText, AllText,
         <<Url(SchemeRelative, "1"), NoSuch, NoSuch, NoSuch>>, NoSuch, NoSuch)

MetaOnlyPage ==
    Page("ok", ReadyAtOnce, AllNone, AllNone, <<NoSuch, NoSuch, NoSuch, NoSuch>>,
         Elem(Str(<<"M", "e", "t", "a">>)), Url(Absolute, "m"))

\* pages on which something other than a locator miss goes wrong
FailingPages ==
    {[FullPage EXCEPT !.get = "error"],
     [FullPage EXCEPT !.wait = ScriptError],
     [FullPage EXCEPT !.wait = NeverReady],
     [FullPage EXCEPT !.wait = [n \in 1..MaxPolls |->
                                   IF n = MaxPolls THEN "complete" ELSE "interactive"]],
     [FullPage EXCEPT !.size = TextFounds("s", <<"none", "crash", "text", "text">>)],
     [MetaOnlyPage EXCEPT !.og_image = Crash]}

\* pages without a usable name whose other fields are populated
NamelessPages ==
    {Page("ok", ReadyAtOnce, AllNone, AllText,
          <<Url(Absolute, "1"), NoSuch, NoSuch, NoSuch>>, ogt, Url(Absolute, "m")) :
        ogt \in {NoSuch, Elem(None), Elem(Str(<<>>))}} \cup
    {Page("ok", ReadyAtOnce, <<"blank", "none", "notext", "blank">>, AllText,
          <<Url(Absolute, "1"), NoSuch, NoSuch, NoSuch>>, NoSuch, NoSuch)}

\* the pages served to a whole run
RunPages ==
    {FullPage, MetaOnlyPage, [FullPage EXCEPT !.get = "error"],
     [MetaOnlyPage EXCEPT !.og_image = Crash],
     Page("ok", ReadyAtOnce, AllNone, AllText,
          <<Url(Absolute, "1"), NoSuch, NoSuch, NoSuch>>, NoSuch, Url(Absolute, "m")),
     Page("ok", ReadyAtOnce, <<"blank", "none", "notext", "blank">>, AllText,
          <<Url(Absolute, "1"), NoSuch, NoSuch, NoSuch>>, Elem(Str(<<>>)), NoSuch)}

-----------------------------------------------------------------------------
(* scrape_product_page, called directly *)

NoScrape == [url |-> None, page |-> MetaOnlyPage, product_data |-> None, returned |-> FALSE]

\* lines 167-274, on a site that serves scrape.page for scrape.url
ScrapePage ==
    /\ pc = "scrape"
    /\ DriverOp
    /\ scrape' = [scrape EXCEPT !.product_data = ScrapeProductPage(scrape.url, scrape.page),
                                !.returned = TRUE]
    /\ pc' = "done"
    /\ UNCHANGED <<stack, driver, quits, nav, wait, lk, run, products, exported>>

-----------------------------------------------------------------------------
(* scrape_products and main *)

\* f"{self.base_url}/collections/skincare"
CategoryListingUrl ==
    Str(base_url \o <<"/", "c", "o", "l", "l", "e", "c", "t", "i", "o", "n", "s", "/",
                      "s", "k", "i", "n", "c", "a", "r", "e">>)

\* WorkList without the fallback
WorkListNoFallback(links) == links

\* lines 285-288: `if not product_links:` falls back to the category listing
WorkList(links) == IF links = <<>> THEN <<CategoryListingUrl>> ELSE links

\* lines 283-288, after extract_product_links returned
SpLinks ==
    /\ pc = "sp_links"
    /\ run' = [run EXCEPT !.product_links = WorkList(lk.result), !.i = 1, !.entered = TRUE]
    /\ pc' = "sp_loop"
    /\ UNCHANGED <<stack, driver, quits, lateOps, nav, wait, lk, products, scrape, exported>>

\* Retained with the name not looked at: `if product_data:`
RetainedAny(product_data) == product_data.t = "dict"

\* line 295: `if product_data and product_data['product_name']:`
Retained(product_data) == product_data.t = "dict" /\ Truthy(product_data.product_name)

\* SpIterate with scrape_product_page's exception not caught at the page's boundary: it
\* reaches the `except Exception` of scrape_products and ends the loop
SpIterateAbort(page) ==
    /\ pc = "sp_loop"
    /\ run.i <= Len(run.product_links)
    /\ DriverOp
    /\ LET url == run.product_links[run.i]
           product_data == ScrapeProductPage(url, page)
       IN  /\ scrape' = [url |-> url, page |-> page, product_data |-> product_data,
                         returned |-> product_data # None]
           /\ products' = IF product_data # None /\ Truthy(product_data.product_name)
                          THEN Append(products, product_data) ELSE products
           /\ pc' = IF product_data = None THEN "sp_except" ELSE "sp_loop"
           /\ run' = IF product_data = None THEN run ELSE [run EXCEPT !.i = @ + 1]
    /\ UNCHANGED <<stack, driver, quits, nav, wait, lk, exported>>

\* lines 291-300: one pass of the loop over product_links, on a site that serves
\* `page` for the link
SpIterate(page) ==
    /\ pc = "sp_loop"
    /\ run.i <= Len(run.product_links)
    /\ DriverOp
    /\ LET url == run.product_links[run.i]
           product_data == ScrapeProductPage(url, page)
       IN  /\ scrape' = [url |-> url, page |-> page, product_data |-> product_data,
                         returned |-> TRUE]
           /\ products' = IF Retained(product_data)
                          THEN Append(products, product_data) ELSE products
    /\ run' = [run EXCEPT !.i = @ + 1,
                          !.error_log = IF ScrapeProductPage(run.product_links[run.i], page) = None
                                        THEN Append(@, run.product_links[run.i]) ELSE @]
    /\ pc' = "sp_loop"
    /\ UNCHANGED <<stack, driver, quits, nav, wait, lk, exported>>

\* line 302: the loop is exhausted
SpComplete ==
    /\ pc = "sp_loop"
    /\ run.i > Len(run.product_links)
    /\ pc' = "sp_finally"
    /\ UNCHANGED <<stack, driver, quits, lateOps, nav, wait, lk, run, products, scrape, exported>>

\* SpExcept with the driver released on the normal path only (no `finally`)
SpExceptNoQuit ==
    /\ pc = "sp_except"
    /\ pc' = "export"
    /\ UNCHANGED <<stack, driver, quits, lateOps, nav, wait, lk, run, products, scrape, exported>>

\* lines 304-305: except Exception: logger.error
SpExcept ==
    /\ pc = "sp_except"
    /\ pc' = "sp_finally"
    /\ UNCHANGED <<stack, driver, quits, lateOps, nav, wait, lk, run, products, scrape, exported>>

\* lines 307-308: finally: self.driver.quit(); an exception of quit leaves main
SpFinally ==
    /\ pc = "sp_finally"
    /\ driver' = "quit"
    /\ quits' = quits + 1
    /\ \E ok \in BOOLEAN : pc' = IF ok THEN "export" ELSE "raised"
    /\ UNCHANGED <<stack, lateOps, nav, wait, lk, run, products, scrape, exported>>

\* column_order
Row(r) ==
    <<r.product_name, r.brand, r.category, r.ingredients, r.size, r.image_url, r.product_url>>

\* lines 310-339: export_to_excel, a no-op on no products
ExportToExcel ==
    /\ pc = "export"
    /\ exported' = IF products = <<>> THEN exported
                   ELSE [rows |-> [n \in 1..Len(products) |-> Row(products[n])]]
    /\ pc' = "done"
    /\ UNCHANGED <<stack, driver, quits, lateOps, nav, wait, lk, run, products, scrape>>

-----------------------------------------------------------------------------
(* Specifications *)

NoRun ==
    [product_links |-> <<>>,    \* the links the loop goes over
     i |-> 1,                   \* position in product_links
     entered |-> FALSE,         \* the loop was reached
     error_log |-> <<>>]        \* the urls of "Error scraping product {url}" (line 273)

Idle ==
    /\ driver = "active" /\ quits = 0 /\ lateOps = 0
    /\ nav = NavInit /\ wait = NoWait
    /\ run = NoRun /\ products = <<>>
    /\ exported = [rows |-> <<>>]

\* main, after QudobeautyScraper() is constructed: scrape_products(max_products) begins,
\* export_to_excel follows
Init ==
    /\ Idle
    /\ pc = "nav_get"
    /\ stack = <<"scrape_products">>
    /\ scrape = NoScrape
    /\ \E max \in 0..MaxProducts : lk = LkInit(max)

Next ==
    \/ NavGet \/ NavWaitHome \/ NavTryCandidate \/ NavClick \/ NavWaitCategory \/ NavReturn
    \/ LinksHeight \/ LinksScroll \/ LinksFind \/ LinksElem \/ LinksReturn
    \/ SpLinks \/ (\E page \in RunPages : SpIterate(page)) \/ SpComplete \/ SpExcept \/ SpFinally
    \/ ExportToExcel

Spec == Init /\ [][Next]_vars

\* navigate_to_skincare called on a fresh scraper
InitNav ==
    /\ Idle
    /\ pc = "nav_get"
    /\ stack = <<>>
    /\ scrape = NoScrape
    /\ lk = LkInit(0)

NextNav ==
    NavGet \/ NavWaitHome \/ NavTryCandidate \/ NavClick \/ NavWaitCategory \/ NavReturn

SpecNav == InitNav /\ [][NextNav]_vars

\* extract_product_links(max_products) called on a loaded page
InitLinks ==
    /\ Idle
    /\ pc = "lk_height"
    /\ stack = <<>>
    /\ scrape = NoScrape
    /\ \E max \in 0..MaxProducts : lk = LkInit(max)

NextLinks == LinksHeight \/ LinksScroll \/ LinksFind \/ LinksElem \/ LinksReturn

SpecLinks == InitLinks /\ [][NextLinks]_vars

\* scrape_product_page(url) called on a fresh scraper, on every page of the model:
\* every combination of what the locators of the name, of the other text fields and of
\* the image find and of the two meta tags, and the pages on which a driver call fails
InitPage ==
    /\ Idle
    /\ pc = "scrape"
    /\ stack = <<>>
    /\ lk = LkInit(0)
    /\ \E url \in {hrefSkincare, None} :
          \E page \in {Page("ok", ReadyAtOnce, ns, os, im, ogt, ogi) :
                          ns \in TextShapes, os \in OtherShapes, im \in ImageFounds,
                          ogt \in OgTitles, ogi \in OgImages}
                      \cup FailingPages \cup NamelessPages :
             scrape = [url |-> url, page |-> page, product_data |-> None, returned |-> FALSE]

NextPage == ScrapePage

SpecPage == InitPage /\ [][NextPage]_vars

-----------------------------------------------------------------------------
(* Properties *)

NoDuplicates(q) == \A m, n \in DOMAIN q : q[m] = q[n] => m = n

\* C1: the list extract_product_links returns holds no href twice and has at most
\* max_products entries, whatever the selectors matched (the same href under several
\* selectors included) and for every max_products >= 0.
C1_LinksDistinctAndCapped ==
    lk.returned => NoDuplicates(lk.result) /\ Len(lk.result) <= lk.max_products

\* an href was found more than once and the list returned is filled to the cap
C1_Witness ==
    lk.returned /\ lk.repeated /\ lk.max_products >= 2 /\ Len(lk.result) = lk.max_products

\* C2: every record of self.products has a non-empty product_name, in every state of a
\* run.
C2_RetainedHaveName ==
    \A n \in DOMAIN products :
        products[n].product_name.t = "str" /\ Len(products[n].product_name.s) > 0

\* a record without a name whose category is populated was returned and not appended
C2_Witness ==
    /\ pc = "sp_loop" /\ scrape.returned /\ products # <<>>
    /\ scrape.product_data.t = "dict"
    /\ ~Truthy(scrape.product_data.product_name)
    /\ Truthy(scrape.product_data.category)
    /\ \A n \in DOMAIN products : products[n] # scrape.product_data

TextFields == {"product_name", "category", "ingredients", "size"}

\* what the locators of a text field find on a page
FoundsOf(page, f) == IF f = "product_name" THEN page.name ELSE page[f]

\* the text the pages show under the first locator of a field, trimmed
FirstText(f) ==
    CASE f = "product_name" -> Str(<<"n", "1">>)
      [] f = "category" -> Str(<<"c", "1">>)
      [] f = "ingredients" -> Str(<<"i", "1">>)
      [] f = "size" -> Str(<<"s", "1">>)

HasText(found) ==
    found.k = "element" /\ \E n \in DOMAIN found.v.s : found.v.s[n] # " "

HasSrc(found) == found.k = "element" /\ found.v.t = "str" /\ found.v.s # <<>>

\* the src the pages give under the first image locator, as an absolute URL
FirstImage(found) ==
    CASE found = Url(SchemeRelative, "1") -> Str(<<"h", "t", "t", "p", "s", ":", "/", "/", "c", "d", "n", "/", "1">>)
      [] found = Url(RootRelative, "1") ->
            Str(<<"h", "t", "t", "p", "s", ":", "/", "/", "q", "u", "d", "o", "b", "e", "a", "u",
                  "t", "y", ".", "c", "o", "m", "/", "c", "d", "n", "/", "1">>)
      [] found = Url(Absolute, "1") -> Str(<<"h", "t", "t", "p", "s", ":", "/", "/", "c", "d", "n", "/", "1">>)

Empty == {None, Str(<<>>)}

\* C3 as claimed: whenever a field's first locator matches an element, the record holds
\* that locator's value (the trimmed text, the src made absolute; nothing when the
\* element has none), never a lower-priority locator's.
C3_FirstLocatorMatchWins ==
    scrape.returned /\ scrape.product_data.t = "dict" =>
        /\ \A f \in TextFields :
              LET found == FoundsOf(scrape.page, f)[1] IN
              found.k = "element" =>
                  IF HasText(found) THEN scrape.product_data[f] = FirstText(f)
                  ELSE scrape.product_data[f] \in Empty
        /\ LET found == scrape.page.image[1] IN
           found.k = "element" =>
               IF HasSrc(found) THEN scrape.product_data.image_url = FirstImage(found)
               ELSE scrape.product_data.image_url \in Empty

\* C3: whenever a field's first locator matches an element whose text is non-empty after
\* trimming (whose src is non-empty, for the image), the record holds that locator's
\* value (the trimmed text, the src made absolute), never a lower-priority locator's.
C3_FirstLocatorValueWins ==
    scrape.returned /\ scrape.product_data.t = "dict" =>
        /\ \A f \in TextFields :
              HasText(FoundsOf(scrape.page, f)[1]) => scrape.product_data[f] = FirstText(f)
        /\ HasSrc(scrape.page.image[1]) =>
              scrape.product_data.image_url = FirstImage(scrape.page.image[1])

\* the first and the lower-priority locators of the name and of the image all match, and
\* the record holds the first ones' values
C3_Witness ==
    /\ scrape.returned /\ scrape.product_data.t = "dict"
    /\ \A n \in 1..4 : HasText(scrape.page.name[n]) /\ HasText(scrape.page.size[n])
    /\ scrape.page.image[1] = Url(RootRelative, "1") /\ HasSrc(scrape.page.image[2])
    /\ scrape.product_data.product_name = Str(<<"n", "1">>)
    /\ scrape.product_data.size = Str(<<"s", "1">>)
    /\ StartsWith(scrape.product_data.image_url.s, base_url)

\* C4: in every record scrape_product_page returns, image_url is absent or an absolute
\* URL, whichever source supplied it (a locator's src or the og:image fallback).
C4_ImageUrlAbsolute ==
    scrape.returned /\ scrape.product_data.t = "dict" =>
        \/ ~Truthy(scrape.product_data.image_url)
        \/ StartsWith(scrape.product_data.image_url.s, <<"h", "t", "t", "p", "s", ":", "/", "/">>)

\* C5: the driver is released exactly once on every path, before export_to_excel begins,
\* and no driver operation is issued after the release.
C5_DriverReleasedOnce ==
    /\ lateOps = 0
    /\ pc \in {"export", "done", "raised"} => quits = 1 /\ driver = "quit"
    /\ pc \notin {"export", "done", "raised"} => quits = 0 /\ driver = "active"
    /\ exported.rows # <<>> => quits = 1

\* the run ended after navigation raised, the driver released once
C5_Witness == pc = "done" /\ nav.result = "raised" /\ quits = 1 /\ driver = "quit"

\* loading or extracting the page raises (among the pages served to a run)
Fails(url, page) == url = None \/ page.get = "error" \/ page.og_image.k = "WebDriverException"

Range(q) == {q[n] : n \in DOMAIN q}

\* C6: a detail URL whose loading or extraction raises yields no record and is the only
\* one skipped: the loop goes on to the next link, in list order, to the end of the
\* list, the records appended stay as they are, and a fully populated page and a
\* metadata-only page each add their record.
C6_SkipOnlyFailingUrl ==
    [][/\ (pc = "sp_loop" /\ run.i <= Len(run.product_links)) =>
              /\ scrape'.url = run.product_links[run.i]
              /\ run'.product_links = run.product_links
              /\ Fails(scrape'.url, scrape'.page) =>
                    /\ scrape'.product_data = None
                    /\ products' = products
                    /\ run'.i = run.i + 1
                    /\ pc' = "sp_loop"
              /\ (scrape'.url # None /\ scrape'.page \in {FullPage, MetaOnlyPage}) =>
                    /\ Len(products') = Len(products) + 1
                    /\ SubSeq(products', 1, Len(products)) = products
                    /\ products'[Len(products')].product_url = scrape'.url
                    /\ products'[Len(products')].product_name =
                          IF scrape'.page = FullPage THEN Str(<<"n", "1">>)
                          ELSE Str(<<"M", "e", "t", "a">>)
       /\ (pc = "sp_loop" /\ pc' # "sp_loop") => run.i = Len(run.product_links) + 1
       /\ \A n \in DOMAIN products' : products'[n].product_url \notin Range(run'.error_log)
      ]_vars

\* three links, one raised, and the two other records are the output: one fully
\* populated, one from the meta tags alone
C6_Witness ==
    /\ pc = "sp_finally" /\ Len(run.product_links) = 3
    /\ run.error_log = <<run.product_links[2]>> /\ Len(products) = 2
    /\ products[1].product_url = run.product_links[1]
    /\ products[2].product_url = run.product_links[3]
    /\ Truthy(products[1].category) /\ Truthy(products[1].size)
    /\ products[2].product_name = Str(<<"M", "e", "t", "a">>) /\ products[2].category = None

\* C7 as claimed: when navigate_to_skincare returned False, the loop goes over the
\* category listing URL alone.
C7_FallbackOnNavigationFailure ==
    run.entered /\ nav.result = "False" => run.product_links = <<CategoryListingUrl>>

\* C7: the loop goes over the category listing URL alone exactly when
\* extract_product_links returned no link (whatever navigate_to_skincare returned);
\* otherwise it goes over the links returned.
C7_FallbackOnNoLinks ==
    run.entered =>
        /\ lk.result = <<>> => run.product_links = <<CategoryListingUrl>>
        /\ lk.result # <<>> => run.product_links = lk.result

\* navigation failed, no link was found, and the category listing was the one page fetched
C7_Witness ==
    /\ pc = "sp_loop" /\ run.entered /\ nav.result = "False" /\ lk.result = <<>>
    /\ run.i = 2 /\ Len(run.product_links) = 1 /\ scrape.url = CategoryListingUrl

NotReady == {"loading", "interactive"}

\* the driver reports 'complete' within the bound, no poll before it raising
ReadyWithinBound(d) ==
    \E n \in DOMAIN d : d[n] = "complete" /\ \A m \in 1..(n - 1) : d[m] \in NotReady

\* the driver never reports 'complete' within the bound
NeverReadyWithinBound(d) == d # <<>> /\ \A n \in DOMAIN d : d[n] \in NotReady

\* C8 as claimed: _wait_for_page_load never raises: ready within the bound, it returns
\* after the extra delay without a warning; never ready, it logs a warning and returns.
C8_WaitNeverRaises ==
    wait.d # <<>> =>
        /\ ~wait.raised
        /\ ReadyWithinBound(wait.d) => ~wait.warned /\ wait.slept = DynamicContentDelay
        /\ NeverReadyWithinBound(wait.d) => wait.warned

\* C8: _wait_for_page_load returns without raising unless the readiness script itself
\* raises: ready within the bound, it returns after the extra delay without a warning;
\* never ready, it logs a warning and returns; a raising script propagates to the caller.
C8_WaitRaisesOnlyScriptErrors ==
    wait.d # <<>> =>
        /\ ReadyWithinBound(wait.d) =>
              ~wait.raised /\ ~wait.warned /\ wait.slept = DynamicContentDelay
        /\ NeverReadyWithinBound(wait.d) => ~wait.raised /\ wait.warned /\ wait.slept = 0
        /\ wait.raised <=> ~ReadyWithinBound(wait.d) /\ ~NeverReadyWithinBound(wait.d)
        /\ wait.raised => pc = "nav_return" /\ nav.result \in {"raised", "False"}
        /\ ~wait.raised /\ nav.tried = <<>> => pc = "nav_cand"

\* the home page never became ready: a warning was logged and navigation went on
C8_Witness ==
    /\ pc = "nav_click" /\ NeverReadyWithinBound(wait.d) /\ wait.warned /\ ~wait.raised
    /\ nav.tried = <<1>>

IsSkincareProduct(href) == href = hrefSkincare

\* C9: the href of every element scanned is added exactly when it is a '/products/'
\* href with 'skincare' in it or the set holds fewer than max_products entries; once an
\* add has brought the set to max_products entries no further element is scanned and no
\* further selector queried.
C9_InclusionAndEarlyStop ==
    [][/\ (pc = "lk_elem" /\ Head(lk.elements).k = "element") =>
              lk'.product_links =
                  IF \/ IsSkincareProduct(Head(lk.elements).v)
                     \/ Cardinality(lk.product_links) < lk.max_products
                  THEN lk.product_links \cup {Head(lk.elements).v}
                  ELSE lk.product_links
       /\ (lk'.product_links # lk.product_links
             /\ Cardinality(lk'.product_links) >= lk.max_products) => pc' = "lk_return"
       /\ (pc' \in {"lk_find", "lk_elem"} /\ lk'.product_links # {}) =>
              Cardinality(lk'.product_links) < lk.max_products
      ]_vars

\* a non-skincare href was kept below the cap, and the scan stopped at the cap with an
\* element and a selector left
C9_Witness ==
    /\ pc = "lk_return" /\ lk.sel < NumLinkSelectors /\ Len(lk.elements) > 1
    /\ hrefLipstick \in lk.product_links
    /\ Cardinality(lk.product_links) = lk.max_products

InOrder(tried) == tried = [n \in 1..Len(tried) |-> n]

====
